---- MODULE Spec2Model ----
(***************************************************************************)
(* Counter/Print coordinator of the printer dashboard (src/gui.py).        *)
(*                                                                         *)
(* Threads of the program:                                                 *)
(*   - the Tk control thread, which runs every widget command and every    *)
(*     callback handed over with after(0, ...).  A handler runs to its end *)
(*     without interleaving, except inside _make_popup, whose              *)
(*     wait_visibility() (line 90) runs a nested event loop: other         *)
(*     handlers are dispatched there and must return before the waiting    *)
(*     handler goes on.  `stack` holds the handlers suspended there.       *)
(*   - one _auto_worker thread per auto run (`runs`);                      *)
(*   - one check() thread per presence probe (`probes`).                   *)
(* A handler is kept on `stack` only if it still has something to do when  *)
(* its popup is up: release the print lock (the "Success" and "Print       *)
(* Error" popups are raised inside the try) or reset the counter           *)
(* (_print_and_reset).  A popup after which the handler just returns, and  *)
(* a popup posted with after(0, ...), only let other events in, which the  *)
(* event loop does anyway; they appear in `out` alone.  The input grab of  *)
(* a popup only makes the user press OK first and is left out.             *)
(* Variables named like a field of PrinterApp are that field; the others   *)
(* are the position of each thread, or history kept for the properties    *)
(* (out, adds, autoWrote and the fields stopped, stopAt, delivered, npar,  *)
(* nreset, ncleanup of a run).  What the device answers (Usb() opens or    *)
(* raises, a write succeeds or raises, lsusb lists the printer or not) is  *)
(* the environment's choice at each call.                                  *)
(***************************************************************************)
EXTENDS Integers, Sequences, FiniteSets, TLC

\* ---------------------------------------------------------------- bounds
MaxRuns == 1          \* auto runs started in one behaviour
MaxCount == 2         \* largest number typed into the max-count entry, and the
                      \* counter value up to which ManualAdd is followed
MaxProbes == 1        \* presence probes started and not yet handled

\* ------------------------------------------------------ program constants
DefaultMaxCount == 10     \* fallback of _toggle_auto for a non-numeric max
DefaultIntervalTenths == 10   \* fallback 1.0 s, in tenths of a second
MinIntervalTenths == 1    \* 0.1 s
NaN == -1                 \* float("nan"): parsed by float(), below no number

VARIABLES
    counter,          \* self.counter
    printer,          \* self.printer: "none" or the state of the Usb object it refers to
    auto_running,     \* self.auto_running
    stopped_by_user,  \* self._stopped_by_user
    print_lock,       \* self.print_lock is held
    print_scheduled,  \* self.print_scheduled
    ui_lock,          \* self._ui_lock: 0 free, r > 0 held by the worker of run r
    device_connected, \* self.device_connected
    auto_max_count,   \* self.auto_max_count
    auto_interval,    \* self.auto_interval, in tenths of a second, or NaN
    screen,           \* which content screen is built: "dashboard", "manual", "auto"
    btn_state,        \* state of self.btn_auto ("normal"/"disabled"); "absent" if destroyed
    stack,            \* control-thread handlers suspended in wait_visibility, innermost last
    cbq,              \* after(0, ...) callbacks not yet run, in posting order
    runs,             \* one record per auto run started: its worker thread and its history
    probes,           \* number of check() threads started whose result is not yet handled
    flying,           \* these threads, oldest first, each with what has happened
                      \* since it started (history)
    ctl_blocked,      \* the control thread waits for _ui_lock at line 983
    config,           \* self.config, on the keys of DEFAULT_CONFIG
    store,            \* the file printer_config.json
    entries,          \* the texts of the three entries of the settings window
    printer_params,   \* vendor id, product id and interface the handle in
                      \* self.printer was opened with; NoParams if there is none
    open_handles,     \* number of Usb objects opened and not closed
    receipt,          \* the body of the print job under way or last run, call by
                      \* call: which calls raise, where it is, the lines sent
    out,              \* what the last step did towards the user and the printer
    adds,             \* ManualAdd calls since the last ResetCounter (history), kept
                      \* while autoWrote is FALSE and 0 otherwise
    autoWrote         \* an auto run wrote counter since the last ResetCounter (history)

vars == <<counter, printer, auto_running, stopped_by_user, print_lock, print_scheduled,
          ui_lock, device_connected, auto_max_count, auto_interval, screen, btn_state,
          stack, cbq, runs, probes, flying, ctl_blocked, config, store, entries,
          printer_params, open_handles, receipt, out, adds, autoWrote>>

\* ------------------------------------------------------------- data shapes
Screens == {"dashboard", "manual", "auto"}
Jobs == {"print_count", "test_print"}

\* An entry text: a decimal integer, or text int()/float() rejects, or "nan".
NumInput(v) == [k |-> "num", v |-> v]
TextInput == [k |-> "text", v |-> 0]
NanInput == [k |-> "nan", v |-> 0]

MaxCountInputs == {NumInput(v) : v \in 0..MaxCount}
IntervalInputs == {NumInput(0), NanInput}

\* ---------------------------------------------------------- configuration
\* A text is the sequence of its pieces: <<"0x", "0fe6">> is "0x0fe6", <<>> is
\* the empty text.  HexDigits are the pieces that are hexadecimal digits only.
HexDigits == {"0fe6", "811e", "1a2b"}

\* int(t, 16) succeeds for a text that starts with "0x" (lines 423, 431, 176,
\* 184).
HexOk(t) == Len(t) = 2 /\ t[1] = "0x" /\ t[2] \in HexDigits
HexValue(t) == t[2]

\* Lines 421-422 / 429-430: "0x" is put in front of a text that does not start
\* with it.
WithPrefix(t) == IF t # <<>> /\ t[1] = "0x" THEN t ELSE <<"0x">> \o t

\* A value of the configuration: a string, an int or a float (in tenths).
StrV(t) == [t |-> "str", v |-> t]
IntV(n) == [t |-> "int", v |-> n]
FloatV(n) == [t |-> "float", v |-> n]

ConfigKeys == {"vendor_id", "product_id", "interface", "auto_max_count", "auto_interval"}

DEFAULT_CONFIG ==
    [vendor_id |-> StrV(<<"0x", "0fe6">>),
     product_id |-> StrV(<<"0x", "811e">>),
     interface |-> IntV(0),
     auto_max_count |-> IntV(DefaultMaxCount),
     auto_interval |-> FloatV(DefaultIntervalTenths)]

\* json.dump / json.load of one value: a string is written as a quoted token, a
\* number as a literal, with a fraction part exactly for a float.
JsonDump(v) ==
    IF v.t = "str" THEN [kind |-> "string", lit |-> v.v, frac |-> FALSE]
                   ELSE [kind |-> "number", lit |-> v.v, frac |-> v.t = "float"]
JsonLoad(tok) ==
    CASE tok.kind = "string" -> StrV(tok.lit)
      [] tok.frac -> FloatV(tok.lit)
      [] OTHER -> IntV(tok.lit)

\* The file: missing; "corrupt", which makes json.load (line 28) or the merge
\* (lines 30-32) raise: cut short, not JSON, or a JSON value that is no object
\* (a list or a string in which all five key names are found would pass the
\* merge and be returned as it is; such a file is left out); or a JSON object
\* with tokens under some keys.
NoFile == [kind |-> "missing", data |-> [k \in {} |-> 0]]
CorruptFile == [kind |-> "corrupt", data |-> [k \in {} |-> 0]]
ObjectFile(data) == [kind |-> "object", data |-> data]

\* A dump that leaves the interface out.
DumpWithoutInterface(cfg) ==
    ObjectFile([k \in ConfigKeys \ {"interface"} |-> JsonDump(cfg[k])])

\* json.dump(config, f) ran through (line 42).
DumpConfig(cfg) == ObjectFile([k \in ConfigKeys |-> JsonDump(cfg[k])])

\* load_config (lines 23-36): the object of the file with the missing keys
\* filled from DEFAULT_CONFIG; the defaults if the file is missing or anything
\* raises.
load_config(f) ==
    IF f.kind = "object"
      THEN [k \in ConfigKeys |->
               IF k \in DOMAIN f.data THEN JsonLoad(f.data[k]) ELSE DEFAULT_CONFIG[k]]
      ELSE DEFAULT_CONFIG

\* _get_vendor_id / _get_product_id / _get_interface (lines 172-190): what
\* Usb() is called with.
HexOrDefault(v, dflt) ==
    IF v.t = "str" THEN (IF HexOk(v.v) THEN HexValue(v.v) ELSE dflt) ELSE v.v
ConnParams(cfg) ==
    <<HexOrDefault(cfg["vendor_id"], "0fe6"),
      HexOrDefault(cfg["product_id"], "811e"),
      cfg["interface"].v>>
NoParams == <<>>

\* The entries of the settings window before anything is typed.
NoEntries == [vid |-> <<>>, pid |-> <<>>, iface |-> TextInput]

\* A check() thread that is out: over, the result of a thread started after it
\* has been applied; pre, a handle has been opened since it started.
NewProbe == [over |-> FALSE, pre |-> FALSE]

\* connect_printer has opened a handle: every thread out started before that.
SawConnect(fl) == [k \in DOMAIN fl |-> [fl[k] EXCEPT !.pre = TRUE]]

\* The result of thread k is applied: the older ones, before it in fl, are
\* overtaken.
Landed(fl, k) ==
    [j \in 1..(Len(fl) - 1) |-> IF j < k THEN [fl[j] EXCEPT !.over = TRUE] ELSE fl[j + 1]]

\* No print job has run its body call by call.
NoReceipt == [job |-> "none", fails |-> {}, pc |-> 0, lines |-> <<>>, res |-> "none"]

\* What a step did: ev, the event; job, the print job it belongs to; val, the
\* counter value on the receipt, or the status delivered; handle, what it did
\* with self.printer ("opened": Usb() called and a handle stored, "failed": Usb()
\* called and raised, "reused": the open handle used, "closed": the handle closed
\* and forgotten, "none": nothing); run, the auto run it belongs to (0: none).
NoOut == [ev |-> "none", job |-> "none", val |-> 0, handle |-> "none", run |-> 0]
Out(ev, job, val, handle, run) ==
    [ev |-> ev, job |-> job, val |-> val, handle |-> handle, run |-> run]

Cb(t, r, v, m) == [t |-> t, r |-> r, v |-> v, m |-> m]
\* A suspended handler: the popup it waits in ("ok", "err": print job holding the
\* lock; "busy": rejected print job) and the run whose _print_and_reset called
\* it (0: a button did).
Frame(pc, par) == [pc |-> pc, par |-> par]
Holds(f) == f.pc \in {"ok", "err"}

\* A worker whose counter starts at 1.
NewRunFromOne(max, iv) ==
    [pc |-> "run", i |-> 1, max |-> max, interval |-> iv,
     stopped |-> FALSE, stopAt |-> 0, delivered |-> <<>>, npar |-> 0,
     nreset |-> 0, ncleanup |-> 0]

\* The worker thread of a run at line 1001 and the history of the run.
NewRun(max, iv) ==
    [pc |-> "run", i |-> 0, max |-> max, interval |-> iv,
     stopped |-> FALSE, stopAt |-> 0, delivered |-> <<>>, npar |-> 0,
     nreset |-> 0, ncleanup |-> 0]

Init ==
    /\ counter = 0
    /\ printer = "none"
    /\ auto_running = FALSE
    /\ stopped_by_user = FALSE
    /\ print_lock = FALSE
    /\ print_scheduled = FALSE
    /\ ui_lock = 0
    /\ device_connected = FALSE
    /\ auto_max_count = DefaultMaxCount
    /\ auto_interval = DefaultIntervalTenths
    /\ screen = "dashboard"
    /\ btn_state = "absent"
    /\ stack = <<>>
    /\ cbq = <<>>
    /\ runs = <<>>
    /\ probes = 1              \* __init__ starts the first probe (line 170)
    /\ flying = <<NewProbe>>
    /\ ctl_blocked = FALSE
    /\ store = NoFile
    /\ config = load_config(store)
    /\ entries = NoEntries
    /\ printer_params = NoParams
    /\ open_handles = 0
    /\ receipt = NoReceipt
    /\ out = NoOut
    /\ adds = 0
    /\ autoWrote = FALSE


\* Groups of variables, for the UNCHANGED clauses.
autoVars == <<auto_running, stopped_by_user, print_scheduled, ui_lock, auto_max_count,
              auto_interval, ctl_blocked>>
devVars == <<printer, device_connected, probes, flying, printer_params, open_handles>>
cfgVars == <<config, store, entries>>
uiVars == <<screen, btn_state>>
cntVars == <<counter, adds, autoWrote>>

\* ------------------------------------------------------ pure helpers
\* _toggle_auto, lines 958-964: int() of the entry text, clamped below at 1.
ClampMaxCount(inp) ==
    IF inp.k = "num" THEN (IF inp.v < 1 THEN 1 ELSE inp.v) ELSE DefaultMaxCount

\* _toggle_auto, lines 966-972: float() of the entry text, clamped below at 0.1;
\* float("nan") parses and compares below nothing, so it is kept.
ClampInterval(inp) ==
    CASE inp.k = "num" -> (IF inp.v < MinIntervalTenths THEN MinIntervalTenths ELSE inp.v)
      [] inp.k = "nan" -> NaN
      [] OTHER -> DefaultIntervalTenths

SetRun(r, rec) == [runs EXCEPT ![r] = rec]

\* The control thread is in an event loop (mainloop or a nested wait_visibility)
\* and takes the next event; it is not when it waits for _ui_lock.
CanDispatch == ~ctl_blocked

\* ------------------------------------------------ counter, manual screen
\* An add that counts twice.
ManualAddTwice ==
    /\ CanDispatch /\ screen = "manual"
    /\ counter < MaxCount
    /\ counter' = counter + 2
    /\ adds' = IF autoWrote THEN 0 ELSE adds + 1
    /\ out' = NoOut
    /\ UNCHANGED <<cfgVars, receipt, autoWrote, autoVars, devVars, uiVars, print_lock, stack, cbq, runs>>

\* _manual_add ("Add" button of the manual screen).
ManualAdd ==
    /\ CanDispatch /\ screen = "manual"
    /\ counter < MaxCount
    /\ counter' = counter + 1
    /\ adds' = IF autoWrote THEN 0 ELSE adds + 1
    /\ out' = NoOut
    /\ UNCHANGED <<cfgVars, receipt, autoWrote, autoVars, devVars, uiVars, print_lock, stack, cbq, runs>>

\* _reset_counter ("Reset" button of the manual screen).
ResetCounter ==
    /\ CanDispatch /\ screen = "manual"
    /\ counter' = 0
    /\ adds' = 0
    /\ autoWrote' = FALSE
    /\ out' = NoOut
    /\ UNCHANGED <<cfgVars, receipt, autoVars, devVars, uiVars, print_lock, stack, cbq, runs>>

\* ------------------------------------------------------------ navigation
\* _nav_click destroys the content widgets and builds the screen anew; _show_auto
\* creates a fresh Start/Stop button, enabled.
NavClick(key) ==
    /\ CanDispatch
    /\ screen' = key
    /\ btn_state' = IF key = "auto" THEN "normal" ELSE "absent"
    /\ out' = NoOut
    /\ UNCHANGED <<cfgVars, receipt, cntVars, autoVars, devVars, print_lock, stack, cbq, runs>>

\* ------------------------------------------------------------- auto runs
\* _toggle_auto, branch `if not self.auto_running`.  The handler takes _ui_lock
\* at line 983; if a worker holds it (the worker is inside `with self._ui_lock`,
\* waiting for the control thread to take its after() call), the handler stops
\* there with lines 958-982 done and the control thread never goes on.
StartAutoRunUpTo(cap, minp, iinp) ==
    /\ CanDispatch /\ screen = "auto" /\ btn_state = "normal"
    /\ ~auto_running
    /\ Len(runs) < cap
    /\ auto_max_count' = ClampMaxCount(minp)
    /\ auto_interval' = ClampInterval(iinp)
    /\ auto_running' = TRUE
    /\ counter' = 0
    /\ adds' = 0
    /\ autoWrote' = TRUE
    /\ stopped_by_user' = FALSE
    /\ out' = NoOut
    /\ IF ui_lock # 0
         THEN /\ ctl_blocked' = TRUE
              /\ UNCHANGED <<print_scheduled, runs>>
         ELSE /\ print_scheduled' = FALSE
              /\ runs' = Append(runs, NewRun(auto_max_count', auto_interval'))
              /\ UNCHANGED ctl_blocked
    /\ UNCHANGED <<cfgVars, receipt, ui_lock, devVars, uiVars, print_lock, stack, cbq>>

StartAutoRun(minp, iinp) == StartAutoRunUpTo(MaxRuns, minp, iinp)

\* A stop that itself hands over the print of the run.
StopAutoRunPrints ==
    /\ CanDispatch /\ screen = "auto" /\ btn_state = "normal"
    /\ auto_running
    /\ stopped_by_user' = TRUE
    /\ auto_running' = FALSE
    /\ btn_state' = "disabled"
    /\ print_scheduled' = TRUE
    /\ cbq' = Append(cbq, Cb("par", Len(runs), 0, 0))
    /\ runs' = [r \in DOMAIN runs |->
                   IF runs[r].pc # "done" /\ ~runs[r].stopped
                     THEN [runs[r] EXCEPT !.stopped = TRUE, !.stopAt = runs[r].i]
                     ELSE runs[r]]
    /\ out' = NoOut
    /\ UNCHANGED <<cfgVars, receipt, cntVars, ui_lock, auto_max_count, auto_interval,
                   ctl_blocked, devVars, screen, print_lock, stack>>

\* _toggle_auto, else branch (lines 994-997).  In `runs` every worker still
\* alive is marked as stopped by the user, with the tick it had published.
StopAutoRun ==
    /\ CanDispatch /\ screen = "auto" /\ btn_state = "normal"
    /\ auto_running
    /\ stopped_by_user' = TRUE
    /\ auto_running' = FALSE
    /\ btn_state' = "disabled"
    /\ runs' = [r \in DOMAIN runs |->
                   IF runs[r].pc # "done" /\ ~runs[r].stopped
                     THEN [runs[r] EXCEPT !.stopped = TRUE, !.stopAt = runs[r].i]
                     ELSE runs[r]]
    /\ out' = NoOut
    /\ UNCHANGED <<cfgVars, receipt, cntVars, print_scheduled, ui_lock, auto_max_count, auto_interval,
                   ctl_blocked, devVars, screen, print_lock, stack, cbq>>

\* ------------------------------------------------------ the worker thread
\* One pass of `while self.auto_running and i < max_count` with the condition
\* true: publish the tick, then sleep.  time.sleep(nan) raises; the except
\* clause posts the "Auto Error" popup and the worker goes to its finally.
WorkerTick(r) ==
    /\ r \in DOMAIN runs /\ runs[r].pc = "run"
    /\ auto_running /\ runs[r].i < runs[r].max
    /\ CanDispatch
    /\ LET v == runs[r].i + 1
       IN /\ cbq' = Append(cbq, Cb("tick", r, v, runs[r].max))
          /\ IF runs[r].interval = NaN
               THEN /\ runs' = SetRun(r, [runs[r] EXCEPT !.i = v, !.pc = "fin"])
                    /\ out' = Out("autoerror", "none", 0, "none", r)
               ELSE /\ runs' = SetRun(r, [runs[r] EXCEPT !.i = v])
                    /\ out' = NoOut
    /\ UNCHANGED <<cfgVars, receipt, cntVars, autoVars, devVars, uiVars, print_lock, stack>>

\* The loop condition is false: the worker leaves the loop.
WorkerLeaveLoop(r) ==
    /\ r \in DOMAIN runs /\ runs[r].pc = "run"
    /\ ~(auto_running /\ runs[r].i < runs[r].max)
    /\ runs' = SetRun(r, [runs[r] EXCEPT !.pc = "lock"])
    /\ out' = NoOut
    /\ UNCHANGED <<cfgVars, receipt, cntVars, autoVars, devVars, uiVars, print_lock, stack, cbq>>

\* Lines 1010-1012: take _ui_lock, test and set print_scheduled.
WorkerSchedule(r) ==
    /\ r \in DOMAIN runs /\ runs[r].pc = "lock"
    /\ ui_lock = 0
    /\ IF ~print_scheduled
         THEN /\ print_scheduled' = TRUE
              /\ ui_lock' = r
              /\ runs' = SetRun(r, [runs[r] EXCEPT !.pc = "par"])
         ELSE /\ runs' = SetRun(r, [runs[r] EXCEPT !.pc = "fin"])
              /\ UNCHANGED <<print_scheduled, ui_lock>>
    /\ out' = NoOut
    /\ UNCHANGED <<cfgVars, receipt, cntVars, auto_running, stopped_by_user, auto_max_count,
                   auto_interval, ctl_blocked, devVars, uiVars, print_lock, stack, cbq>>

\* Line 1013, still inside `with self._ui_lock`: after(0, self._print_and_reset)
\* is taken by the control thread's event loop; then the lock is released.
WorkerPostPrint(r) ==
    /\ r \in DOMAIN runs /\ runs[r].pc = "par"
    /\ CanDispatch
    /\ cbq' = Append(cbq, Cb("par", r, 0, 0))
    /\ ui_lock' = 0
    /\ runs' = SetRun(r, [runs[r] EXCEPT !.pc = "fin", !.npar = @ + 1])
    /\ out' = NoOut
    /\ UNCHANGED <<cfgVars, receipt, cntVars, auto_running, stopped_by_user, print_scheduled,
                   auto_max_count, auto_interval, ctl_blocked, devVars, uiVars,
                   print_lock, stack>>

\* Line 1018.
WorkerFinally(r) ==
    /\ r \in DOMAIN runs /\ runs[r].pc = "fin"
    /\ auto_running' = FALSE
    /\ runs' = SetRun(r, [runs[r] EXCEPT !.pc = "post"])
    /\ out' = NoOut
    /\ UNCHANGED <<cfgVars, receipt, cntVars, stopped_by_user, print_scheduled, ui_lock, auto_max_count,
                   auto_interval, ctl_blocked, devVars, uiVars, print_lock, stack, cbq>>

\* Line 1019.
WorkerPostCleanup(r) ==
    /\ r \in DOMAIN runs /\ runs[r].pc = "post"
    /\ CanDispatch
    /\ cbq' = Append(cbq, Cb("cleanup", r, 0, 0))
    /\ runs' = SetRun(r, [runs[r] EXCEPT !.pc = "done", !.ncleanup = @ + 1])
    /\ out' = NoOut
    /\ UNCHANGED <<cfgVars, receipt, cntVars, autoVars, devVars, uiVars, print_lock, stack>>

\* ----------------------------------------------------------- print jobs
\* An acquire that excludes nothing.
AcquireAlways == TRUE

\* print_lock.acquire(blocking=False) succeeds (lines 1068, 1136).
TryAcquire == ~print_lock

\* connect_printer opens a handle only if there is none (line 250).
NeedConnect == printer = "none"

\* A disconnect that closes the handle and keeps the reference.
KeepClosedHandle(p) == IF p # "none" THEN "closed" ELSE p

\* _set_device_status(False), lines 239-244: close the handle, whatever close()
\* raises, and forget it.
DropHandle(p) == IF p # "none" THEN "none" ELSE p

\* A finally clause that is a plain statement after the success popup.
ReleaseOnSuccessOnly(f) == IF f.pc = "ok" THEN FALSE ELSE print_lock

\* The value of print_lock when a suspended handler returns: the finally clause
\* releases the lock the handler acquired (lines 1129-1133, 1182-1186); the busy
\* return at lines 1070/1138 is outside the try.
ReleaseOnExit(f) == IF Holds(f) THEN FALSE ELSE print_lock

\* A _print_and_reset that returns when print_count has returned.
NoResetTail(par) == UNCHANGED <<cntVars, runs>>

\* _print_and_reset after print_count has returned (lines 1023-1026); nothing
\* for a print a button asked for (par = 0).
PrintAndResetTail(par) ==
    IF par # 0
      THEN /\ counter' = 0
           /\ adds' = 0
           /\ autoWrote' = TRUE
           /\ runs' = SetRun(par, [runs[par] EXCEPT !.nreset = @ + 1])
      ELSE UNCHANGED <<cntVars, runs>>

\* A busy return that goes through the finally clause and releases.
JobBusyReleases(job, par, q) ==
    /\ print_lock
    /\ IF par # 0
         THEN stack' = Append(stack, Frame("busy", par))
         ELSE UNCHANGED stack
    /\ out' = Out("busy", job, 0, "none", par)
    /\ cbq' = q
    /\ print_lock' = FALSE
    /\ UNCHANGED <<printer, device_connected, printer_params, open_handles, cntVars, runs>>

\* Lines 1068-1070 / 1136-1138: the lock is taken; the handler raises the
\* "print in progress" popup and returns.
JobBusy(job, par, q) ==
    /\ ~TryAcquire
    /\ IF par # 0
         THEN stack' = Append(stack, Frame("busy", par))
         ELSE UNCHANGED stack
    /\ out' = Out("busy", job, 0, "none", par)
    /\ cbq' = q
    /\ UNCHANGED <<print_lock, printer, device_connected, printer_params,
                   open_handles, cntVars, runs>>

\* A failed connect that returns past the finally clause.
JobConnectFailsKeepsLock(job, par, q) ==
    /\ ~print_lock
    /\ printer = "none"
    /\ printer' = "none"
    /\ print_lock' = TRUE
    /\ cbq' = q
    /\ out' = Out("connfail", job, 0, "failed", par)
    /\ (IF par # 0
         THEN /\ counter' = 0
              /\ adds' = 0
              /\ autoWrote' = TRUE
              /\ runs' = SetRun(par, [runs[par] EXCEPT !.nreset = @ + 1])
         ELSE UNCHANGED <<cntVars, runs>>)
    /\ UNCHANGED <<stack, device_connected, printer_params, open_handles>>

\* Lines 1072-1074 with connect_printer's except branch (261-265): Usb() raised;
\* the error popup is posted, the job returns and its finally releases the lock.
JobConnectFails(job, par, q) ==
    /\ TryAcquire
    /\ NeedConnect
    /\ printer' = "none"
    /\ print_lock' = FALSE
    /\ cbq' = q
    /\ out' = Out("connfail", job, 0, "failed", par)
    /\ PrintAndResetTail(par)
    /\ UNCHANGED <<stack, device_connected, printer_params, open_handles>>

\* A connect that stores the handle and leaves the status as it is.
JobConnectedQuietly ==
    /\ TryAcquire
    /\ printer' = IF NeedConnect THEN "open" ELSE printer
    /\ device_connected' = device_connected
    /\ printer_params' = IF NeedConnect THEN ConnParams(config) ELSE printer_params
    /\ open_handles' = IF NeedConnect THEN open_handles + 1 ELSE open_handles
    /\ print_lock' = TRUE


\* The handle the job writes to is there: either it was open, or Usb() opened it
\* (lines 254-260, which also set the status to connected).
JobConnected ==
    /\ TryAcquire
    /\ printer' = IF NeedConnect THEN "open" ELSE printer
    /\ device_connected' = IF NeedConnect THEN TRUE ELSE device_connected
    /\ printer_params' = IF NeedConnect THEN ConnParams(config) ELSE printer_params
    /\ open_handles' = IF NeedConnect THEN open_handles + 1 ELSE open_handles
    /\ print_lock' = TRUE

\* Lines 1076-1125 / 1144-1178 ran through: the receipt is out and the handler is
\* suspended in the "Success" popup, inside the try, holding the lock.
JobPrints(job, par, q) ==
    /\ JobConnected
    /\ printer' = "open"
    /\ stack' = Append(stack, Frame("ok", par))
    /\ out' = Out("printed", job, IF job = "print_count" THEN counter ELSE 0,
                  IF NeedConnect THEN "opened" ELSE "reused", par)
    /\ cbq' = q
    /\ UNCHANGED <<cntVars, runs>>

\* A failed job whose except clause closes and forgets the handle.
JobPrintFailsClosing(job, par, q) ==
    /\ TryAcquire
    /\ printer' = "none"
    /\ printer_params' = NoParams
    /\ open_handles' = 0
    /\ device_connected' = IF NeedConnect THEN TRUE ELSE device_connected
    /\ print_lock' = TRUE
    /\ stack' = Append(stack, Frame("err", par))
    /\ out' = Out("printerr", job, 0, IF NeedConnect THEN "opened" ELSE "reused", par)
    /\ cbq' = q
    /\ UNCHANGED <<cntVars, runs>>


\* A call on the handle raised (lines 1126-1128 / 1179-1181): the handler is
\* suspended in the "Print Error" popup, holding the lock.
JobPrintFails(job, par, q) ==
    /\ JobConnected
    /\ stack' = Append(stack, Frame("err", par))
    /\ out' = Out("printerr", job, 0, IF NeedConnect THEN "opened" ELSE "reused", par)
    /\ cbq' = q
    /\ UNCHANGED <<cntVars, runs>>

\* print_count / test_print up to the point where the handler returns or is
\* suspended in a popup.
PrintJob(job, par, q) ==
    /\ \/ JobBusy(job, par, q)
       \/ JobConnectFails(job, par, q)
       \/ JobPrints(job, par, q)
       \/ JobPrintFails(job, par, q)
    /\ flying' = IF printer = "none" /\ printer' # "none" THEN SawConnect(flying)
                                                         ELSE flying
    /\ UNCHANGED <<cfgVars, receipt, autoVars, uiVars, probes>>

\* "Print Receipt"/"Print" button: _safe_print_call on the main thread.
PrintNow ==
    /\ CanDispatch /\ screen \in {"dashboard", "manual"}
    /\ PrintJob("print_count", 0, cbq)

\* "Test Connection" button: _safe_test_print_call on the main thread.
TestPrint ==
    /\ CanDispatch /\ screen = "dashboard"
    /\ PrintJob("test_print", 0, cbq)

\* The popup of the innermost suspended handler is up: _make_popup returns and
\* the handler runs to its end.
Resume ==
    /\ CanDispatch /\ stack # <<>>
    /\ LET f == stack[Len(stack)]
       IN /\ stack' = SubSeq(stack, 1, Len(stack) - 1)
          /\ print_lock' = ReleaseOnExit(f)
          /\ out' = Out(CASE f.pc = "ok" -> "released_ok"
                          [] f.pc = "err" -> "released_err"
                          [] OTHER -> "returned_busy",
                        "none", 0, "none", f.par)
          /\ PrintAndResetTail(f.par)
    /\ UNCHANGED <<cfgVars, receipt, autoVars, devVars, uiVars, cbq>>

\* An event loop that takes any callback handed over, not the oldest.
NextCbAny(t) == CanDispatch /\ \E k \in DOMAIN cbq : cbq[k].t = t


\* ------------------------------------------- callbacks handed to after(0)
NextCb(t) == CanDispatch /\ cbq # <<>> /\ Head(cbq).t = t

\* _set_counter_from_thread(v, m)
SetCounterFromThread ==
    /\ NextCb("tick")
    /\ LET c == Head(cbq)
       IN /\ counter' = c.v
          /\ runs' = SetRun(c.r, [runs[c.r] EXCEPT !.delivered = Append(@, c.v)])
    /\ adds' = 0
    /\ autoWrote' = TRUE
    /\ cbq' = Tail(cbq)
    /\ out' = NoOut
    /\ UNCHANGED <<cfgVars, receipt, autoVars, devVars, uiVars, print_lock, stack>>

\* _print_and_reset: print_count on the control thread, then the reset.
PrintAndReset ==
    /\ NextCb("par")
    /\ PrintJob("print_count", Head(cbq).r, Tail(cbq))

\* _auto_cleanup_ui: the button is touched only if it exists.
AutoCleanupUi ==
    /\ NextCb("cleanup")
    /\ btn_state' = IF screen = "auto" THEN "normal" ELSE btn_state
    /\ cbq' = Tail(cbq)
    /\ out' = Out("cleanup", "none", 0, "none", Head(cbq).r)
    /\ UNCHANGED <<cfgVars, receipt, cntVars, autoVars, devVars, screen, print_lock, stack, runs>>

\* ------------------------------------------------------ presence monitor
\* _update_usb_status, run by the 3000 ms timer: start a check() thread and
\* re-arm the timer.
UpdateUsbStatusUpTo(cap) ==
    /\ CanDispatch
    /\ probes < cap
    /\ probes' = probes + 1
    /\ flying' = Append(flying, NewProbe)
    /\ out' = NoOut
    /\ UNCHANGED <<cfgVars, receipt, cntVars, autoVars, printer, device_connected,
                   printer_params, open_handles, uiVars, print_lock,
                   stack, cbq, runs>>

UpdateUsbStatus == UpdateUsbStatusUpTo(MaxProbes)

\* A check() thread ends: _check_usb_device found the printer in the output of
\* lsusb or not (a failure of lsusb counts as not), and the callback posted at
\* line 221 runs _set_device_status(connected) on the control thread.  The post
\* is not kept in cbq: when a check() thread posts is free, so its callback can
\* come at any place among the others.  The threads do not wait for each other
\* (lsusb is given up to 5 s, the timer comes every 3 s), so any of those out can
\* be the one that ends.
SetDeviceStatus(connected) ==
    /\ probes > 0
    /\ CanDispatch
    /\ device_connected' = connected
    /\ printer' = IF connected THEN printer ELSE DropHandle(printer)
    /\ printer_params' = IF printer' = "none" THEN NoParams ELSE printer_params
    /\ open_handles' = IF ~connected /\ printer # "none" THEN open_handles - 1
                                                         ELSE open_handles
    /\ out' = Out("status", "none", IF connected THEN 1 ELSE 0,
                  IF ~connected /\ printer # "none" THEN "closed" ELSE "none", 0)
    /\ probes' = probes - 1
    /\ \E k \in DOMAIN flying : flying' = Landed(flying, k)
    /\ UNCHANGED <<cfgVars, receipt, cntVars, autoVars, uiVars, print_lock, stack, cbq, runs>>

\* ---------------------------------------------------------- specification
Next ==
    \/ ManualAdd
    \/ ResetCounter
    \/ \E key \in Screens : NavClick(key)
    \/ \E minp \in MaxCountInputs, iinp \in IntervalInputs : StartAutoRun(minp, iinp)
    \/ StopAutoRun
    \/ \E r \in DOMAIN runs : WorkerTick(r)
    \/ \E r \in DOMAIN runs : WorkerLeaveLoop(r)
    \/ \E r \in DOMAIN runs : WorkerSchedule(r)
    \/ \E r \in DOMAIN runs : WorkerPostPrint(r)
    \/ \E r \in DOMAIN runs : WorkerFinally(r)
    \/ \E r \in DOMAIN runs : WorkerPostCleanup(r)
    \/ PrintNow
    \/ TestPrint
    \/ Resume
    \/ SetCounterFromThread
    \/ PrintAndReset
    \/ AutoCleanupUi
    \/ UpdateUsbStatus
    \/ \E connected \in BOOLEAN : SetDeviceStatus(connected)

Spec == Init /\ [][Next]_vars

\* The auto screen alone, with one more run than Spec follows: the user only
\* opens the auto screen and presses Start/Stop, and no probe result arrives.
NextOverlap ==
    \/ NavClick("auto")
    \/ \E minp \in MaxCountInputs, iinp \in IntervalInputs :
          StartAutoRunUpTo(MaxRuns + 1, minp, iinp)
    \/ StopAutoRun
    \/ \E r \in DOMAIN runs : WorkerTick(r)
    \/ \E r \in DOMAIN runs : WorkerLeaveLoop(r)
    \/ \E r \in DOMAIN runs : WorkerSchedule(r)
    \/ \E r \in DOMAIN runs : WorkerPostPrint(r)
    \/ \E r \in DOMAIN runs : WorkerFinally(r)
    \/ \E r \in DOMAIN runs : WorkerPostCleanup(r)
    \/ Resume
    \/ SetCounterFromThread
    \/ PrintAndReset
    \/ AutoCleanupUi

SpecOverlap == Init /\ [][NextOverlap]_vars

\* A step of the worker thread of run r.
WorkerStep(r) ==
    \/ WorkerTick(r)
    \/ WorkerLeaveLoop(r)
    \/ WorkerSchedule(r)
    \/ WorkerPostPrint(r)
    \/ WorkerFinally(r)
    \/ WorkerPostCleanup(r)

\* The control thread runs a callback handed over, or goes on after a popup.
ControlStep ==
    \/ SetCounterFromThread
    \/ PrintAndReset
    \/ AutoCleanupUi
    \/ Resume

\* A thread that can run does run: the worker threads are scheduled by the
\* system, and the event loop of the control thread takes what is queued.
FairOverlap ==
    /\ SpecOverlap
    /\ \A r \in 1..(MaxRuns + 1) : WF_vars(WorkerStep(r))
    /\ WF_vars(ControlStep)


\* ============================================ settings window and the file
\* str.strip() (lines 415-417): the blanks at both ends go.
RECURSIVE StripLeft(_)
StripLeft(t) == IF t # <<>> /\ Head(t) = " " THEN StripLeft(Tail(t)) ELSE t
RECURSIVE StripRight(_)
StripRight(t) ==
    IF t # <<>> /\ t[Len(t)] = " " THEN StripRight(SubSeq(t, 1, Len(t) - 1)) ELSE t
Strip(t) == StripRight(StripLeft(t))

\* What is typed into the entries.
VidTexts == {<<"0x", "0fe6">>, <<" ", "1a2b", " ">>, <<"zzzz">>}
PidTexts == {<<"811e">>, <<"0x", "zz">>}
IfaceTexts == {NumInput(1), TextInput}

\* What open(CONFIG_FILE, 'w') and json.dump (lines 41-42) can do to the file:
\* write it, fail to open it, or fail after open() has emptied it.
WriteOutcomes == {"written", "unopened", "torn"}
save_config(cfg, w, f) ==
    CASE w = "written" -> DumpConfig(cfg)
      [] w = "unopened" -> f
      [] OTHER -> CorruptFile

\* A save that leaves the handle as it is.
LeaveHandle(p) == p

\* Lines 447-453: the handle is closed, whatever close() does, and forgotten.
CloseHandle(p) == "none"

\* A validation that lets any interface text through.
OffendingBut3(new_vid, new_pid, iface) ==
    CASE ~HexOk(new_vid) -> 1
      [] ~HexOk(new_pid) -> 2
      [] OTHER -> 0

\* Lines 420-440: the first entry that does not pass, 0 if all do.
Offending(new_vid, new_pid, iface) ==
    CASE ~HexOk(new_vid) -> 1
      [] ~HexOk(new_pid) -> 2
      [] iface.k # "num" -> 3
      [] OTHER -> 0

\* "Save" of the settings window (save_settings, lines 413-460).
SaveSettings(vid, pid, iface, w) ==
    /\ CanDispatch
    /\ entries' = [vid |-> vid, pid |-> pid, iface |-> iface]
    /\ LET new_vid == WithPrefix(Strip(vid))
           new_pid == WithPrefix(Strip(pid))
           bad == Offending(new_vid, new_pid, iface)
       IN IF bad # 0
            THEN /\ out' = Out("invalid", "none", bad, "none", 0)
                 /\ UNCHANGED <<config, store, printer, printer_params, open_handles>>
            ELSE /\ config' = [config EXCEPT !["vendor_id"] = StrV(new_vid),
                                             !["product_id"] = StrV(new_pid),
                                             !["interface"] = IntV(iface.v)]
                 /\ printer' = CloseHandle(printer)
                 /\ printer_params' = IF printer' = "none" THEN NoParams
                                                           ELSE printer_params
                 /\ open_handles' = IF printer # "none" THEN open_handles - 1
                                                        ELSE open_handles
                 /\ store' = save_config(config', w, store)
                 /\ out' = Out(IF w = "written" THEN "saved" ELSE "save_failed",
                               "none", 0,
                               IF printer # "none" THEN "closed" ELSE "none", 0)
    /\ UNCHANGED <<cntVars, autoVars, uiVars, device_connected, probes, flying,
                   print_lock, stack, cbq, runs, receipt>>

\* The files the program can find when it starts: none, one that is no JSON
\* object, the one a save of the defaults wrote, one with a single key, and one
\* edited by hand to a vendor id that is no hex number.
InitialStores ==
    {NoFile, CorruptFile, DumpConfig(DEFAULT_CONFIG),
     ObjectFile([k \in {"product_id"} |-> JsonDump(StrV(<<"0x", "1a2b">>))]),
     ObjectFile([k \in {"vendor_id", "interface"} |->
                    IF k = "vendor_id" THEN JsonDump(StrV(<<"zzzz">>))
                                       ELSE JsonDump(IntV(1))])}

\* Module load and __init__ (lines 48, 138-170) with the file f in place.
InitSettings ==
    /\ store \in InitialStores
    /\ config = load_config(store)
    /\ counter = 0
    /\ printer = "none"
    /\ auto_running = FALSE
    /\ stopped_by_user = FALSE
    /\ print_lock = FALSE
    /\ print_scheduled = FALSE
    /\ ui_lock = 0
    /\ device_connected = FALSE
    /\ auto_max_count = config["auto_max_count"].v
    /\ auto_interval = config["auto_interval"].v
    /\ screen = "dashboard"
    /\ btn_state = "absent"
    /\ stack = <<>>
    /\ cbq = <<>>
    /\ runs = <<>>
    /\ probes = 1
    /\ flying = <<NewProbe>>
    /\ ctl_blocked = FALSE
    /\ entries = NoEntries
    /\ printer_params = NoParams
    /\ open_handles = 0
    /\ receipt = NoReceipt
    /\ out = NoOut
    /\ adds = 0
    /\ autoWrote = FALSE

\* The program is closed and started again: the process and its handle are gone,
\* the file stays, and load_config reads it.
Restart ==
    /\ config' = load_config(store)
    /\ counter' = 0
    /\ printer' = "none"
    /\ auto_running' = FALSE
    /\ stopped_by_user' = FALSE
    /\ print_lock' = FALSE
    /\ print_scheduled' = FALSE
    /\ ui_lock' = 0
    /\ device_connected' = FALSE
    /\ auto_max_count' = config'["auto_max_count"].v
    /\ auto_interval' = config'["auto_interval"].v
    /\ screen' = "dashboard"
    /\ btn_state' = "absent"
    /\ stack' = <<>>
    /\ cbq' = <<>>
    /\ runs' = <<>>
    /\ probes' = 1
    /\ flying' = <<NewProbe>>
    /\ ctl_blocked' = FALSE
    /\ entries' = NoEntries
    /\ printer_params' = NoParams
    /\ open_handles' = 0
    /\ receipt' = NoReceipt
    /\ out' = Out("loaded", "none", 0, "none", 0)
    /\ adds' = 0
    /\ autoWrote' = FALSE
    /\ UNCHANGED store

\* The settings window, the print buttons of the dashboard and the presence
\* monitor.
NextSettings ==
    \/ \E vid \in VidTexts, pid \in PidTexts, iface \in IfaceTexts, w \in WriteOutcomes :
          SaveSettings(vid, pid, iface, w)
    \/ Restart
    \/ PrintNow
    \/ TestPrint
    \/ Resume
    \/ UpdateUsbStatus
    \/ \E c \in BOOLEAN : SetDeviceStatus(c)

SpecSettings == InitSettings /\ [][NextSettings]_vars

\* ================================================= the body of a print job
\* The calls on the handle, by what the printer is asked to do: p.set with
\* double size, p.set with normal size, p.set with an alignment only, the two
\* _raw emphasis controls, p.text and p.cut.
CallKinds == {"size2", "size1", "align", "bold_on", "bold_off", "text", "cut"}

\* One call of the body: k, its kind; n, the number of the receipt line a
\* p.text sends (0 for the other calls); ok, the call that follows when it
\* returns; fail, the call that follows when it raises, which is the first call
\* of the except clause of the innermost try around it, or the call after the
\* try if that clause is "pass"; Abort if no try of the body is around it, so
\* that the except clause of the job takes it.
Abort == 0
Call(k, n, ok, fail) == [k |-> k, n |-> n, ok |-> ok, fail |-> fail]

\* print_count, lines 1080-1123.
PrintCountBody ==
    << Call("size2", 0, 3, 2),        \* 1081
       Call("align", 0, 3, 3),        \* 1084
       Call("bold_on", 0, 4, 6),      \* 1089
       Call("text", 1, 5, 6),         \* 1090 LAPORAN HITUNGAN
       Call("bold_off", 0, 7, 6),     \* 1091
       Call("text", 1, 7, Abort),     \* 1093 LAPORAN HITUNGAN
       Call("size1", 0, 8, 8),        \* 1096
       Call("text", 2, 9, Abort),     \* 1100 rule
       Call("align", 0, 10, Abort),   \* 1102
       Call("text", 3, 11, Abort),    \* 1103 Tanggal
       Call("text", 4, 12, Abort),    \* 1104 Nomor
       Call("text", 5, 13, Abort),    \* 1105 rule
       Call("bold_on", 0, 14, 16),    \* 1108
       Call("text", 6, 15, 16),       \* 1109 Hasil Hitungan
       Call("bold_off", 0, 17, 16),   \* 1110
       Call("text", 6, 17, Abort),    \* 1112 Hasil Hitungan
       Call("text", 7, 18, Abort),    \* 1114 rule
       Call("align", 0, 19, Abort),   \* 1116
       Call("text", 8, 20, Abort),    \* 1117 Terima kasih!
       Call("text", 9, 21, Abort),    \* 1118 Dicetak oleh PrinterPro
       Call("cut", 0, 22, 22) >>      \* 1121

\* test_print, lines 1147-1176.
TestPrintBody ==
    << Call("size2", 0, 3, 2),        \* 1148
       Call("align", 0, 3, 3),        \* 1151
       Call("bold_on", 0, 4, 6),      \* 1156
       Call("text", 1, 5, 6),         \* 1157 TEST PRINT
       Call("bold_off", 0, 7, 6),     \* 1158
       Call("text", 1, 7, Abort),     \* 1160 TEST PRINT
       Call("text", 2, 8, Abort),     \* 1162 rule
       Call("align", 0, 9, Abort),    \* 1163
       Call("text", 3, 10, Abort),    \* 1164 Waktu
       Call("text", 4, 11, Abort),    \* 1165 Printer
       Call("text", 5, 12, Abort),    \* 1166 Status
       Call("align", 0, 13, Abort),   \* 1167
       Call("bold_on", 0, 14, Abort), \* 1168
       Call("text", 6, 15, Abort),    \* 1169 Test berhasil!
       Call("bold_off", 0, 16, Abort),\* 1170
       Call("text", 7, 17, Abort),    \* 1171 empty line
       Call("cut", 0, 18, 18) >>      \* 1174

Body(job) == IF job = "print_count" THEN PrintCountBody ELSE TestPrintBody

\* The body is through when the call after the last one is reached.
BodyEnd(job) == Len(Body(job)) + 1

\* The numbers of the text lines of the receipt of a job.
ReceiptLines(job) == {Body(job)[i].n : i \in DOMAIN Body(job)} \ {0}

\* The job has the lock and the handle (lines 1068-1078 / 1136-1145) and starts
\* on its body; fails are the kinds of call this printer raises on.
BeginJob(job, fails) ==
    /\ CanDispatch /\ screen = "dashboard" /\ stack = <<>>
    /\ JobConnected
    /\ receipt' = [job |-> job, fails |-> fails, pc |-> 1, lines |-> <<>>,
                   res |-> "running"]
    /\ out' = Out("begun", job, 0, IF NeedConnect THEN "opened" ELSE "reused", 0)
    /\ flying' = IF printer = "none" /\ printer' # "none" THEN SawConnect(flying)
                                                         ELSE flying
    /\ UNCHANGED <<cfgVars, cntVars, autoVars, uiVars, probes, stack, cbq, runs>>

\* The next call of the body: it raises or returns; a p.text that returns has
\* sent its line.
BodyStep ==
    /\ receipt.res = "running"
    /\ receipt.pc \in DOMAIN Body(receipt.job)
    /\ LET c == Body(receipt.job)[receipt.pc]
       IN receipt' =
            IF c.k \in receipt.fails
              THEN [receipt EXCEPT !.pc = c.fail]
              ELSE [receipt EXCEPT !.pc = c.ok,
                                   !.lines = IF c.k = "text" THEN Append(@, c.n) ELSE @]
    /\ out' = Out("call", receipt.job, 0, "reused", 0)
    /\ UNCHANGED <<cfgVars, cntVars, autoVars, devVars, uiVars, print_lock, stack,
                   cbq, runs>>

\* The body is through and the "Success" popup is raised (lines 1125 / 1178),
\* or a call raised outside every try of the body and the except clause of the
\* job raises "Print Error" (lines 1126-1128 / 1179-1181).
EndBody ==
    /\ receipt.res = "running"
    /\ receipt.pc \in {Abort, BodyEnd(receipt.job)}
    /\ LET ok == receipt.pc # Abort
       IN /\ receipt' = [receipt EXCEPT !.res = IF ok THEN "ok" ELSE "err"]
          /\ stack' = Append(stack, Frame(IF ok THEN "ok" ELSE "err", 0))
          /\ out' = Out(IF ok THEN "printed" ELSE "printerr", receipt.job,
                        IF ok /\ receipt.job = "print_count" THEN counter ELSE 0,
                        "reused", 0)
    /\ UNCHANGED <<cfgVars, cntVars, autoVars, devVars, uiVars, print_lock, cbq, runs>>

\* One print job after the other from the dashboard, each call by call, on a
\* printer that raises on some kinds of call.
NextReceipt ==
    \/ \E job \in Jobs, fails \in SUBSET CallKinds : BeginJob(job, fails)
    \/ BodyStep
    \/ EndBody
    \/ Resume

SpecReceipt == Init /\ [][NextReceipt]_vars


\* ===================================== the presence monitor beside auto runs
\* The auto screen with runs of one tick, and the presence monitor: its timer
\* and the results of its check() threads.
NextMonitor ==
    \/ NavClick("auto")
    \/ \E iinp \in IntervalInputs : StartAutoRunUpTo(MaxRuns + 1, NumInput(1), iinp)
    \/ StopAutoRun
    \/ \E r \in DOMAIN runs : WorkerStep(r)
    \/ ControlStep
    \/ UpdateUsbStatus
    \/ \E connected \in BOOLEAN : SetDeviceStatus(connected)

SpecMonitor == Init /\ [][NextMonitor]_vars

\* The 3000 ms timer fires and a check() thread comes back while the event loop
\* of the control thread runs; threads that can run do run.
FairMonitor ==
    /\ SpecMonitor
    /\ \A r \in 1..(MaxRuns + 1) : WF_vars(WorkerStep(r))
    /\ WF_vars(ControlStep)
    /\ WF_vars(UpdateUsbStatus)
    /\ WF_vars(\E connected \in BOOLEAN : SetDeviceStatus(connected))


\* ================================================== one auto run by itself
\* A single auto run, and everything of Spec beside it but the two writes of
\* the counter by the user, the "+" of the manual screen and "Reset".
NextOneRun ==
    \/ \E key \in Screens : NavClick(key)
    \/ \E minp \in MaxCountInputs, iinp \in IntervalInputs :
          StartAutoRunUpTo(1, minp, iinp)
    \/ StopAutoRun
    \/ \E r \in DOMAIN runs : WorkerStep(r)
    \/ PrintNow
    \/ TestPrint
    \/ Resume
    \/ SetCounterFromThread
    \/ PrintAndReset
    \/ AutoCleanupUi
    \/ UpdateUsbStatus
    \/ \E connected \in BOOLEAN : SetDeviceStatus(connected)

SpecOneRun == Init /\ [][NextOneRun]_vars


\* ============================================= probes that overlap in time
\* The presence monitor with one more check() thread out than Spec follows,
\* and the print buttons of the dashboard.
NextProbes ==
    \/ UpdateUsbStatusUpTo(MaxProbes + 1)
    \/ \E connected \in BOOLEAN : SetDeviceStatus(connected)
    \/ PrintNow
    \/ TestPrint
    \/ Resume

SpecProbes == Init /\ [][NextProbes]_vars


\* ============================================================ properties
\* The print jobs in flight: the handlers between acquire and release.  A job
\* whose connect fails acquires and releases within one step.
InFlight == {k \in DOMAIN stack : Holds(stack[k])}

\* The events of `out` with which print_count / test_print answer a request.
JobEvents == {"busy", "connfail", "printed", "printerr"}

\* C1: at any time at most one print job (print_count from a button, print_count
\* from _print_and_reset, test_print) is between acquiring print_lock and
\* releasing it.
C1_OneJobInFlight == Cardinality(InFlight) <= 1

\* A test print is in flight, asked for by a button, and the print of an auto run
\* has just been turned away.
C1_Witness ==
    /\ out.ev = "busy" /\ out.job = "print_count" /\ out.run # 0
    /\ \E k \in InFlight : stack[k].par = 0

\* C2: a print request made while print_lock is held answers "busy" at once: the
\* control thread does not wait, nothing is queued, the lock stays with its
\* holder, the suspended handlers stay as they are, self.printer and the status
\* are not touched and nothing goes to the printer.
C2_BusyLeavesJobAlone ==
    [][(print_lock /\ out'.ev \in JobEvents) =>
          /\ out'.ev = "busy" /\ out'.handle = "none"
          /\ print_lock'
          /\ ~ctl_blocked'
          /\ printer' = printer /\ device_connected' = device_connected
          /\ Len(cbq') <= Len(cbq)
          /\ Len(stack') >= Len(stack)
          /\ SubSeq(stack', 1, Len(stack)) = stack
          /\ InFlight' = InFlight
          /\ (out'.run = 0 => stack' = stack)]_vars

\* A button's print request has been turned away while a job is in flight.
C2_Witness ==
    /\ out.ev = "busy" /\ out.job = "print_count" /\ out.run = 0
    /\ InFlight # {} /\ print_lock

\* C3: whenever no print job is in flight print_lock is free, whichever way the
\* jobs before ended (receipt printed, connect failed, error on the handle), so
\* the next request is not turned away.
C3_LockFreeWhenIdle == InFlight = {} => ~print_lock

\* A job whose write raised has ended and nothing is in flight.
C3_Witness == out.ev = "released_err" /\ InFlight = {} /\ ~print_lock

\* ------------------------------------------------- auto runs: definitions
\* The auto-worker threads alive: _auto_worker has not returned.
Live == {r \in DOMAIN runs : runs[r].pc # "done"}

\* time.sleep raised in the worker of run r (the except clause at line 1014 ran).
RunFailed(r) == runs[r].interval = NaN /\ runs[r].i > 0

\* Run r is over: its worker has returned and the control thread has run
\* everything the worker handed over.
RunOver(r) ==
    /\ runs[r].pc = "done"
    /\ \A k \in DOMAIN cbq : cbq[k].r # r
    /\ \A k \in DOMAIN stack : stack[k].par # r

\* The values 1, 2, ..., n in this order.
UpTo(n) == [k \in 1..n |-> k]

\* C4: an auto run started with max_count >= 1 and not stopped delivers to the
\* control thread the counter values 1, 2, ..., max_count in this order, none
\* twice and none left out, then hands over exactly one _print_and_reset, which
\* resets the counter once.
C4_RunDeliversAllThenPrints ==
    \A r \in DOMAIN runs :
        ~runs[r].stopped =>
            /\ runs[r].max >= 1
            /\ runs[r].delivered = UpTo(Len(runs[r].delivered))
            /\ Len(runs[r].delivered) <= runs[r].max
            /\ runs[r].npar <= 1 /\ runs[r].nreset <= runs[r].npar
            /\ runs[r].nreset = 1 => runs[r].delivered = UpTo(runs[r].max)
            /\ RunOver(r) => /\ runs[r].delivered = UpTo(runs[r].max)
                             /\ runs[r].npar = 1
                             /\ runs[r].nreset = 1

\* C5: at most one auto-worker thread is alive at any time, and auto_running
\* implies that exactly one is.
C5_OneLiveWorker ==
    /\ Cardinality(Live) <= 1
    /\ auto_running => Cardinality(Live) = 1

\* C6: once Stop is pressed during a run whose worker has published tick k,
\* 1 <= k < max_count, that worker takes no further pass of its loop: the next
\* time it tests the loop condition it leaves.  When it has returned it has
\* handed over _auto_cleanup_ui exactly once.
C6_StoppedWorkerEnds ==
    \A r \in DOMAIN runs :
        (runs[r].stopped /\ runs[r].stopAt >= 1 /\ runs[r].stopAt < runs[r].max) =>
            /\ runs[r].i = runs[r].stopAt
            /\ runs[r].ncleanup <= 1
            /\ runs[r].pc = "done" => runs[r].ncleanup = 1

\* C7: every auto run that ends without an error in its worker, stopped or
\* not, has handed over _print_and_reset exactly once.
C7_PrintScheduledOncePerRun ==
    \A r \in DOMAIN runs :
        /\ runs[r].npar <= 1
        /\ (runs[r].pc = "done" /\ ~RunFailed(r)) => runs[r].npar = 1

\* An error-free run that was not stopped is over and did not deliver all its
\* values: another worker cleared auto_running.
C4_Witness ==
    \E r \in DOMAIN runs :
        /\ ~runs[r].stopped /\ ~RunFailed(r) /\ RunOver(r)
        /\ runs[r].delivered # UpTo(runs[r].max)

\* Two workers are alive.
C5_Witness == Cardinality(Live) = 2

\* The worker of a run stopped after tick k went on to tick k + 1.
C6_Witness ==
    \E r \in DOMAIN runs :
        /\ runs[r].stopped /\ runs[r].stopAt >= 1 /\ runs[r].stopAt < runs[r].max
        /\ runs[r].i > runs[r].stopAt

\* The worker of an error-free run has returned without handing over
\* _print_and_reset.
C7_Witness ==
    \E r \in DOMAIN runs :
        runs[r].pc = "done" /\ ~RunFailed(r) /\ runs[r].npar = 0

\* C8: pressing Stop sets _stopped_by_user and clears auto_running and nothing
\* else of the coordinator: the counter, print_scheduled, print_lock, _ui_lock,
\* self.printer, the status, the run parameters, the callbacks handed over and
\* the suspended handlers stay as they are, and nothing is printed.
C8_StopOnlySetsFlags ==
    [][(~stopped_by_user /\ stopped_by_user') =>
          /\ auto_running /\ ~auto_running'
          /\ UNCHANGED <<counter, print_scheduled, print_lock, ui_lock, printer,
                         device_connected, auto_max_count, auto_interval, cbq, stack>>
          /\ out'.ev = "none"]_vars

\* Stop was pressed while the worker was in its loop with ticks left, and no
\* print has been handed over.
C8_Witness ==
    /\ stopped_by_user /\ ~auto_running /\ ~print_scheduled
    /\ \E r \in DOMAIN runs :
          runs[r].stopped /\ runs[r].pc = "run" /\ runs[r].i < runs[r].max
    /\ \A k \in DOMAIN cbq : cbq[k].t # "par"

\* C9: the counter is never negative, and as long as no auto run has written it
\* since the last reset (or since the start) it is the number of ManualAdd
\* calls since then.
C9_CounterIsAddsSinceReset ==
    /\ counter >= 0
    /\ ~autoWrote => counter = adds

\* An auto run is over, Reset was pressed and then Add MaxCount times.
C9_Witness ==
    /\ ~autoWrote /\ adds = MaxCount /\ counter = MaxCount
    /\ runs # <<>> /\ \A r \in DOMAIN runs : RunOver(r)

\* C10: when the monitor delivers "disconnected", self.printer is None
\* afterwards, an open handle having been closed; self.printer never refers to
\* a closed handle; and a print job that gets the lock reuses a handle only if
\* self.printer is an open one, calling Usb() otherwise.
C10_DisconnectDropsHandle ==
    [][/\ (out'.ev = "status" /\ out'.val = 0) =>
              /\ printer' = "none"
              /\ printer # "none" => out'.handle = "closed"
       /\ out'.ev \in (JobEvents \ {"busy"}) =>
              /\ out'.handle \in {"opened", "failed", "reused"}
              /\ out'.handle = "reused" <=> printer = "open"
       /\ printer' \in {"none", "open"}]_vars

\* "Disconnected" has just been delivered while a handle was open.
C10_Witness ==
    out.ev = "status" /\ out.val = 0 /\ out.handle = "closed" /\ printer = "none"

\* C14: when Usb() raises in a print job, the job writes nothing, the
\* connection-error popup is posted, self.printer is None afterwards and
\* print_lock is free again, no handler is left suspended, and a later job
\* that gets the lock with self.printer None calls Usb() again.
C14_ConnectFailureLeavesNothing ==
    [][/\ out'.ev = "connfail" =>
              /\ out'.handle = "failed"
              /\ printer = "none" /\ printer' = "none"
              /\ ~print_lock /\ ~print_lock'
              /\ stack' = stack
              /\ device_connected' = device_connected
       /\ (out'.ev \in {"printed", "printerr"} /\ printer = "none") =>
              out'.handle = "opened"]_vars

\* The connect of a test print has just failed.
C14_Witness ==
    /\ out.ev = "connfail" /\ out.job = "test_print"
    /\ printer = "none" /\ ~print_lock

\* The _print_and_reset calls of run r that are handed over and not yet begun,
\* and those suspended inside print_count.
ParQueued(r) == {k \in DOMAIN cbq : cbq[k].t = "par" /\ cbq[k].r = r}
ParSuspended(r) == {k \in DOMAIN stack : stack[k].par = r}

\* C15: _print_and_reset sets the counter to 0 when print_count has returned,
\* whichever way it returned (receipt printed, connect failed, error on the
\* handle, turned away because print_lock was held), and every _print_and_reset
\* handed over is either still to run, suspended in a popup, or has reset.
C15_PrintAndResetAlwaysResets ==
    [][/\ (out'.ev \in {"connfail", "released_ok", "released_err", "returned_busy"}
            /\ out'.run # 0) =>
              /\ counter' = 0
              /\ runs'[out'.run].nreset = runs[out'.run].nreset + 1
       /\ \A r \in DOMAIN runs' :
              runs'[r].npar = runs'[r].nreset + Cardinality(ParQueued(r)')
                                + Cardinality(ParSuspended(r)')]_vars

\* The print of an auto run was turned away because a job was in flight, and
\* the counter was reset all the same.
C15_Witness ==
    /\ out.ev = "returned_busy" /\ out.run # 0
    /\ counter = 0 /\ runs[out.run].nreset = 1

\* A step of a worker thread: the position of some worker changes.
WorkerMoved == \E r \in DOMAIN runs : runs'[r].pc # runs[r].pc

\* C19: the worker threads write none of self.counter, auto_running,
\* _stopped_by_user, print_scheduled and self.printer: these change only in
\* steps of the control thread.
C19_OnlyControlThreadWrites ==
    [][WorkerMoved =>
          UNCHANGED <<counter, auto_running, stopped_by_user, print_scheduled,
                      printer>>]_vars

\* x is a number and at least y.
AtLeast(x, y) == x # NaN /\ x >= y

\* Entry texts beyond those the runs are started with.
AllMaxCountInputs == MaxCountInputs \cup {NumInput(-1), TextInput, NanInput}
AllIntervalInputs == IntervalInputs \cup {NumInput(MinIntervalTenths + 1), TextInput}

\* C16: whatever is typed into the two entries, the run that starts has
\* max_count >= 1 and interval >= 0.1: a number below the minimum becomes the
\* minimum, a number at or above it is kept, and a text that is no number
\* gives the defaults 10 and 1.0.
C16_RunParametersClamped ==
    /\ \A r \in DOMAIN runs :
          runs[r].max >= 1 /\ AtLeast(runs[r].interval, MinIntervalTenths)
    /\ \A inp \in AllMaxCountInputs :
          /\ ClampMaxCount(inp) >= 1
          /\ inp.k = "num" => ClampMaxCount(inp) = (IF inp.v < 1 THEN 1 ELSE inp.v)
          /\ inp.k # "num" => ClampMaxCount(inp) = DefaultMaxCount
    /\ \A inp \in AllIntervalInputs :
          /\ AtLeast(ClampInterval(inp), MinIntervalTenths)
          /\ inp.k = "num" =>
                ClampInterval(inp) = (IF inp.v < MinIntervalTenths
                                        THEN MinIntervalTenths ELSE inp.v)
          /\ inp.k # "num" => ClampInterval(inp) = DefaultIntervalTenths

\* The values the worker of run r has published: those delivered and those
\* still queued, in this order.
TicksQueued(r) == SelectSeq(cbq, LAMBDA c : c.t = "tick" /\ c.r = r)
Published(r) ==
    runs[r].delivered \o [k \in 1..Len(TicksQueued(r)) |-> TicksQueued(r)[k].v]

\* C17: Start pressed while no worker is alive sets the counter to 0,
\* auto_running to TRUE, _stopped_by_user and print_scheduled to FALSE and
\* starts one worker, at the top of its loop with nothing published; and the
\* values a worker has published are 1, 2, ... up to its own count, so the first
\* is 1.
C17_StartEffects ==
    [][/\ (~auto_running /\ auto_running' /\ Live = {}) =>
              /\ counter' = 0
              /\ ~stopped_by_user' /\ ~print_scheduled'
              /\ ~ctl_blocked'
              /\ Len(runs') = Len(runs) + 1
              /\ Live' = {Len(runs')}
              /\ runs'[Len(runs')].pc = "run"
              /\ cbq' = cbq
       /\ \A r \in DOMAIN runs' : Published(r)' = UpTo(runs'[r].i)]_vars

\* The first run was started and its first value, 1, has been delivered.
C17_Witness ==
    /\ Len(runs) = 1 /\ auto_running /\ ~stopped_by_user
    /\ runs[1].delivered = <<1>> /\ counter = 1

\* C18: every worker started ends by itself: it reaches the end of
\* _auto_worker, having cleared auto_running and handed over _auto_cleanup_ui.
C18_WorkersTerminate ==
    \A r \in 1..(MaxRuns + 1) :
        (Len(runs) >= r) ~>
            (Len(runs) >= r /\ runs[r].pc = "done" /\ runs[r].ncleanup = 1)

\* A run was started with the interval "nan" and its worker ended in the except
\* clause.
C16_Witness ==
    \E r \in DOMAIN runs :
        runs[r].interval = NaN /\ RunFailed(r) /\ runs[r].pc = "done"

\* The control thread waits for _ui_lock at line 983 and the worker that holds
\* it waits for the control thread at line 1013.
C18_Witness ==
    /\ ctl_blocked
    /\ \E r \in Live : runs[r].pc = "par" /\ ui_lock = r
\* ------------------------------------------------ settings and the file
\* C11: there is at most one handle, it is the one in self.printer, and while it
\* is open the vendor id, product id and interface it was opened with are the
\* ones the current configuration gives to Usb(): a save that was accepted has
\* closed it, so no job writes to a handle of an earlier configuration.
C11_HandleMatchesConfig ==
    /\ open_handles <= 1
    /\ open_handles = (IF printer = "none" THEN 0 ELSE 1)
    /\ printer # "none" => printer_params = ConnParams(config)
    /\ printer = "none" => printer_params = NoParams
    /\ out.ev = "printed" => printer_params = ConnParams(config)

\* An accepted save that changed the vendor id has just closed the open handle.
C11_Witness ==
    /\ out.ev \in {"saved", "save_failed"} /\ out.handle = "closed"
    /\ printer = "none" /\ open_handles = 0
    /\ config["vendor_id"] = StrV(<<"0x", "1a2b">>)

\* The step was a "Save" of the settings window.
SaveStep == out'.ev \in {"invalid", "saved", "save_failed"}

\* A text that reads as a hex number, with or without "0x" in front and with
\* blanks around it.
HexText(t) == \E h \in HexDigits : Strip(t) \in {<<h>>, <<"0x", h>>}

\* The first of the three entries that is not what it has to be, 0 if none.
FirstOffending(e) ==
    CASE ~HexText(e.vid) -> 1
      [] ~HexText(e.pid) -> 2
      [] e.iface.k # "num" -> 3
      [] OTHER -> 0

\* C12: a Save whose vendor id or product id is no hex number, or whose
\* interface is no integer, is answered with the message of the first such entry
\* and changes nothing: the file, self.config and the handle are as before.
C12_InvalidSaveChangesNothing ==
    [][(SaveStep /\ FirstOffending(entries') # 0) =>
          /\ out'.ev = "invalid"
          /\ out'.val = FirstOffending(entries')
          /\ UNCHANGED <<config, store, printer, printer_params, open_handles,
                         device_connected, print_lock>>]_vars

\* A Save with a valid vendor id and product id and a text for the interface was
\* just rejected while a handle is open and a saved file exists.
C12_Witness ==
    /\ out.ev = "invalid" /\ out.val = 3
    /\ printer = "open"
    /\ store.kind = "object" /\ store = DumpConfig(config)
    /\ config["vendor_id"] = StrV(<<"0x", "1a2b">>)

Cosmetic == {"bold_on", "bold_off", "cut"}

\* C20: a print job, PrintNow or TestPrint, on a printer that raises on
\* emphasis controls or on the cut, and on nothing else, sends every text line
\* of its receipt and ends in the "Success" popup.
C20_CosmeticFailureNeverAborts ==
    (/\ receipt.job \in Jobs
     /\ receipt.fails # {} /\ receipt.fails \subseteq Cosmetic
     /\ receipt.res # "running")
       => /\ receipt.res = "ok"
          /\ \A n \in ReceiptLines(receipt.job) :
                \E i \in DOMAIN receipt.lines : receipt.lines[i] = n

\* A test print on a printer that raises on the emphasis-on control only has
\* ended in "Print Error" with its last two lines not sent.
C20_Witness ==
    /\ receipt.job = "test_print" /\ receipt.fails = {"bold_on"}
    /\ receipt.res = "err" /\ out.ev = "printerr"
    /\ receipt.lines = <<1, 2, 3, 4, 5>>

\* ----------------------------------------------- the handle and the lock
\* C21: while a print job holds print_lock, no step of anything else closes,
\* replaces or uses the handle: in a step that starts with the lock held and is
\* not the holder's own, self.printer and what it was opened with stay as they
\* are and no call is made on the handle.
C21_HandleUntouchedWhileLocked ==
    [][(print_lock /\ InFlight # {}) =>
          /\ printer' = printer
          /\ printer_params' = printer_params
          /\ open_handles' = open_handles
          /\ out'.handle = "none"]_vars

\* The presence monitor has just closed the handle of a print job that is in
\* its "Success" popup and holds print_lock.
C21_Witness ==
    /\ out.ev = "status" /\ out.handle = "closed"
    /\ print_lock /\ InFlight # {}
    /\ stack[Len(stack)].pc = "ok"
    /\ printer = "none"

\* ----------------------------------------------------- presence monitor
\* C22: the presence monitor never ends: whatever the probes report and
\* whatever print jobs and auto runs do, a next probe is started again and
\* again.
C22_ProbesRecur == []<><<UpdateUsbStatus>>_vars

\* The control thread waits for _ui_lock with a check() thread still out: its
\* result is never applied and the timer of the monitor never fires again.
C22_Witness == ctl_blocked /\ probes = 1 /\ ui_lock # 0

\* ------------------------------------------- order of a run's callbacks
\* _print_and_reset of run r has been started by the control thread.
ParStarted(r) == runs[r].npar > 0 /\ ParQueued(r) = {}

\* _auto_cleanup_ui of run r has been run by the control thread.
CleanupDone(r) ==
    runs[r].ncleanup > 0 /\ \A k \in DOMAIN cbq : ~(cbq[k].t = "cleanup" /\ cbq[k].r = r)

\* C23: the control thread runs what the worker of a run handed over in the
\* order it was handed over: the ticks 1, 2, ... in this order, then
\* _print_and_reset, then _auto_cleanup_ui.  So, with nobody else writing the
\* counter, the receipt of the run carries the number of ticks the worker
\* published, max_count for a run that was not stopped, and the counter still
\* has that value when the receipt is out: the reset comes after.
C23_CallbacksInPostingOrder ==
    \A r \in DOMAIN runs :
       /\ runs[r].delivered = UpTo(Len(runs[r].delivered))
       /\ ParStarted(r) => /\ TicksQueued(r) = <<>>
                           /\ runs[r].delivered = UpTo(runs[r].i)
       /\ CleanupDone(r) => /\ TicksQueued(r) = <<>>
                            /\ ParQueued(r) = {}
       /\ (out.ev = "printed" /\ out.run = r) =>
             /\ out.val = runs[r].i
             /\ ~runs[r].stopped => out.val = runs[r].max
             /\ counter = out.val
             /\ runs[r].nreset = 0

\* The receipt of a run to MaxCount that was not stopped is out, with MaxCount
\* on it, and the counter is not yet reset.
C23_Witness ==
    /\ Len(runs) = 1 /\ ~runs[1].stopped /\ runs[1].max = MaxCount
    /\ out.ev = "printed" /\ out.run = 1 /\ out.val = MaxCount
    /\ counter = MaxCount

\* --------------------------------------- callbacks of a run that is over
\* A run started after run r has its worker alive.
LaterRunAlive(r) == \E q \in DOMAIN runs : q > r /\ runs[q].pc # "done"

\* C24: what the worker of a run handed over has no effect inside a later run:
\* no _print_and_reset of run r resets the counter while the worker of a later
\* run is alive, and no _auto_cleanup_ui of run r turns the button back to an
\* enabled "Start" while a later run is running.
C24_NoEffectInLaterRun ==
    [][\A r \in DOMAIN runs :
          /\ runs'[r].nreset > runs[r].nreset => ~LaterRunAlive(r)
          /\ (out'.ev = "cleanup" /\ out'.run = r /\ btn_state' = "normal")
                => ~(LaterRunAlive(r) /\ auto_running)]_vars

\* Run 1 was not stopped; Start/Stop was pressed after its worker had cleared
\* auto_running, which started run 2; the cleanup of run 1 has just made the
\* button an enabled "Start" while run 2 is running.
C24_Witness ==
    /\ Len(runs) = 2 /\ ~runs[1].stopped /\ runs[1].interval # NaN
    /\ runs[2].pc = "run" /\ auto_running
    /\ out.ev = "cleanup" /\ out.run = 1 /\ btn_state = "normal"

\* ------------------------------------------------- handle and status
\* C25: whenever self.printer holds a handle, the status is "connected": the
\* handle comes into being together with _set_device_status(True), and every
\* _set_device_status(False) closes and forgets it.
C25_OpenHandleImpliesConnected == printer # "none" => device_connected

\* A print job has just opened the handle after the monitor had reported the
\* device as absent; the status is "connected" again.
C25_Witness ==
    /\ out.ev \in {"printed", "printerr"} /\ out.handle = "opened"
    /\ printer = "open" /\ device_connected
    /\ probes = 0

\* ------------------------------------------------ order of probe results
\* C26: the results of the probes are applied in the order the probes were
\* started: no result is applied after the result of a probe started later,
\* and no result closes a handle that was opened after its probe had started.
C26_ProbeResultsInOrder ==
    [][\A k \in DOMAIN flying :
          (out'.ev = "status" /\ flying' = Landed(flying, k)) =>
             /\ ~flying[k].over
             /\ ~(flying[k].pre /\ out'.handle = "closed")]_vars

\* The result of a later probe has set the status to connected and a handle is
\* open; the only check() thread still out started before both.
C26_Witness ==
    /\ flying = <<[over |-> TRUE, pre |-> TRUE]>>
    /\ printer = "open" /\ device_connected
    /\ out.ev = "status" /\ out.val = 1

\* C27: a print_count that ends in "Success" has sent each line of its receipt
\* once and in the order of the receipt, whichever of the two emphasis controls
\* the printer raises on.
C27_EachLineOnceInOrder ==
    (/\ receipt.job = "print_count"
     /\ receipt.fails \subseteq {"bold_on", "bold_off"}
     /\ receipt.res = "ok")
       => receipt.lines = UpTo(Cardinality(ReceiptLines("print_count")))

\* A print_count on a printer that raises on the emphasis-off control only has
\* ended in "Success" with its title and its result line sent twice.
C27_Witness ==
    /\ receipt.job = "print_count" /\ receipt.fails = {"bold_off"}
    /\ receipt.res = "ok" /\ out.ev = "printed"
    /\ receipt.lines = <<1, 1, 2, 3, 4, 5, 6, 6, 7, 8, 9>>

\* ------------------------------------------- the handle after a print error
\* C28: a print job in which a call on the handle raised leaves the handle
\* open, with the parameters it was opened with; a job that finds a handle
\* uses it and does not call Usb(); and a handle goes away only when the
\* monitor reports the device as absent, when a save is accepted, or with the
\* program.
C28_ErrorKeepsHandle ==
    [][/\ out'.ev = "printerr" =>
             /\ printer' = "open"
             /\ printer = "open" => printer_params' = printer_params
             /\ printer_params' = ConnParams(config)
       /\ (out'.ev \in {"printed", "printerr"} /\ printer = "open") =>
             /\ out'.handle = "reused"
             /\ open_handles' = open_handles
       /\ (printer = "open" /\ printer' # "open") =>
             \/ out'.ev = "status" /\ out'.val = 0
             \/ out'.ev \in {"saved", "save_failed", "loaded"}]_vars

\* A job has just failed on a handle that an earlier job had opened; the handle
\* is still open.
C28_Witness ==
    /\ out.ev = "printerr" /\ out.handle = "reused"
    /\ printer = "open" /\ printer_params = ConnParams(config)
    /\ print_lock /\ stack # <<>>

\* --------------------------------------------- a save that cannot write
\* C29: a Save that passes the validation and whose write to the file fails
\* raises the "Error" popup and leaves self.config and the handle as they
\* were, so that self.config and the file, if they agreed before, still agree.
C29_FailedWriteChangesNothing ==
    [][out'.ev = "save_failed" =>
          /\ config' = config
          /\ printer' = printer
          /\ printer_params' = printer_params
          /\ open_handles' = open_handles
          /\ load_config(store) = config => load_config(store') = config']_vars

\* A Save with a new vendor id could not open the file for writing: the file is
\* as it was, self.config has the new vendor id and the handle that was open
\* is closed.
C29_Witness ==
    /\ out.ev = "save_failed" /\ out.handle = "closed"
    /\ printer = "none"
    /\ config["vendor_id"] = StrV(<<"0x", "1a2b">>)
    /\ store = DumpConfig(DEFAULT_CONFIG)
    /\ load_config(store) # config

====
